---- MODULE Spec2Model ----
(***************************************************************************)
(* A model of the front end of t-webber/expressions: the expression-tree   *)
(* parser (parser/tree/mod.rs, parser/symbols.rs), the diagnostics sink     *)
(* of the lexer (lexer/types/lexing_data.rs), the character loop            *)
(* (parse/mod.rs), the escape sub-lexer (lexer/handle_state.rs) and the     *)
(* hexadecimal literal sub-lexer (lexer/numbers/base/hexadecimal.rs).       *)
(*                                                                          *)
(* Each component has its own variables and its own specification; the      *)
(* variables of the other components stay at their initial value.           *)
(***************************************************************************)
EXTENDS Integers, Sequences, FiniteSets, TLC

VARIABLES
    \* ---- expression-tree parser
    current,     \* the tree under construction (the `current: &mut Node`)
    p_state,     \* ParsingState: parenthesis, brackets, braces, ternary
    history,     \* the tokens fed so far, in order
    outcome,     \* result of the last call: "None", "OkTrue", "OkFalse", "Err", "Panic"
    opened,      \* per nesting kind: opening symbols handled
    closed,      \* per nesting kind: closing symbols accepted (returned Ok)
    \* ---- diagnostics and tokens of the lexer
    lex_data,    \* LexingData: errors, tokens, failed
    error_pushed, \* whether an Error-severity diagnostic was ever given to push_err
    \* ---- escape sub-lexer
    escape_status, \* EscapeStatus: False, Single or Sequence(EscapeSequence)
    decoded,     \* what the last call returned: None or Some(code point)
    last_end,    \* the last end_escape_sequence call: None or Some(its record)
    esc_phase,   \* "running", "done" (end of input) or "panic"
    esc_steps,   \* characters given to the sub-lexer so far
    \* ---- hexadecimal literal sub-lexer
    literal,     \* the literal's text, a sequence of characters
    nb_type,     \* the target NumberType
    overflow_checks, \* the build: integer overflow panics (TRUE) or wraps (FALSE)
    hex_pos,     \* characters of the literal read by get_hex_float_state
    float_parse, \* HexFloatParse
    hex_result,  \* what to_hex_value has returned
    hex_phase,   \* "idle", "scan", "failed" (the scan has not returned Ok),
                 \* "convert" or "done" (the conversion has run)
    \* ---- character loop of the lexer
    input,       \* the expression, a sequence of characters
    pos,         \* characters taken from expression.chars() so far
    lexer_state, \* the loop's ParsingState: comments, escape, quotes, buffers, errors
    tokens,      \* the tokens pushed so far
    line_comment, \* whether the loop was left by the break of the `//` arm
    lex_phase    \* "idle", "loop" or "done" (parse has returned)

pvars == <<current, p_state, history, outcome, opened, closed>>
dvars == <<lex_data, error_pushed>>
evars == <<escape_status, decoded, last_end, esc_phase, esc_steps>>
hvars == <<literal, nb_type, overflow_checks, hex_pos, float_parse, hex_result, hex_phase>>
cvars == <<input, pos, lexer_state, tokens, line_comment, lex_phase>>
vars == <<pvars, dvars, evars, hvars, cvars>>

\* What the actions of one component leave alone.
NotParser == <<dvars, evars, hvars, cvars>>
NotLexData == <<pvars, evars, hvars, cvars>>
NotEscape == <<pvars, error_pushed, hvars, cvars>>
NotHex == <<pvars, dvars, evars, cvars>>
NotLexer == <<pvars, dvars, evars, hvars>>

(***************************************************************************)
(* Option<T>: None is the empty sequence, Some(x) the one-element one.      *)
(***************************************************************************)
None == <<>>
Some(x) == <<x>>
is_none(o) == o = <<>>
is_some(o) == o # <<>>
unwrap(o) == o[1]

(***************************************************************************)
(* Node (parser/tree/mod.rs:80-93).  Vec, Block, FunctionCall and           *)
(* CompoundLiteral are never built by handle_one_symbol and are left out.   *)
(***************************************************************************)
Empty == [kind |-> "Empty"]
Leaf(lit) == [kind |-> "Leaf", lit |-> lit]
Unary(op, arg) == [kind |-> "Unary", op |-> op, arg |-> arg]
Binary(op, arg_l, arg_r) == [kind |-> "Binary", op |-> op, arg_l |-> arg_l, arg_r |-> arg_r]
Ternary(condition, success, failure) ==
    [kind |-> "Ternary", condition |-> condition, success |-> success, failure |-> failure]

Ok(node) == [ok |-> TRUE, node |-> node]
Err(node) == [ok |-> FALSE, node |-> node]

(***************************************************************************)
(* Node::push_node_as_leaf: the first matching arm of the match.  It looks  *)
(* at the slots of `self` only and never descends into a filled slot.       *)
(***************************************************************************)
push_node_as_leaf_right_first(self, node) ==
    CASE self.kind = "Empty" -> Ok(node)
      [] self.kind = "Binary" /\ is_none(self.arg_r) ->
            Ok([self EXCEPT !.arg_r = Some(node)])
      [] self.kind = "Binary" /\ is_some(self.arg_r) /\ is_none(self.arg_l) ->
            Ok([self EXCEPT !.arg_l = Some(node)])
      [] self.kind = "Ternary" /\ is_none(self.condition) ->
            Ok([self EXCEPT !.condition = Some(node)])
      [] self.kind = "Ternary" /\ is_some(self.condition) /\ is_none(self.success) ->
            Ok([self EXCEPT !.success = Some(node)])
      [] self.kind = "Ternary" /\ is_some(self.condition) /\ is_some(self.success)
                               /\ is_none(self.failure) ->
            Ok([self EXCEPT !.failure = Some(node)])
      [] self.kind = "Unary" /\ is_none(self.arg) ->
            Ok([self EXCEPT !.arg = Some(node)])
      [] OTHER -> Err(self)

push_node_as_leaf(self, node) ==
    CASE self.kind = "Empty" -> Ok(node)
      [] self.kind = "Binary" /\ is_none(self.arg_l) ->
            Ok([self EXCEPT !.arg_l = Some(node)])
      [] self.kind = "Binary" /\ is_some(self.arg_l) /\ is_none(self.arg_r) ->
            Ok([self EXCEPT !.arg_r = Some(node)])
      [] self.kind = "Ternary" /\ is_none(self.condition) ->
            Ok([self EXCEPT !.condition = Some(node)])
      [] self.kind = "Ternary" /\ is_some(self.condition) /\ is_none(self.success) ->
            Ok([self EXCEPT !.success = Some(node)])
      [] self.kind = "Ternary" /\ is_some(self.condition) /\ is_some(self.success)
                               /\ is_none(self.failure) ->
            Ok([self EXCEPT !.failure = Some(node)])
      [] self.kind = "Unary" /\ is_none(self.arg) ->
            Ok([self EXCEPT !.arg = Some(node)])
      [] OTHER -> Err(self)

(***************************************************************************)
(* Node::take_last_leaf: returns the literal of the last leaf and the tree  *)
(* with that leaf replaced by Empty, or None and the tree as it was.        *)
(***************************************************************************)
RECURSIVE take_last_leaf(_)
take_last_leaf(self) ==
    CASE self.kind = "Leaf" -> [leaf |-> Some(self.lit), node |-> Empty]
      [] self.kind = "Binary" /\ is_some(self.arg_r) ->
            LET r == take_last_leaf(unwrap(self.arg_r))
            IN  [leaf |-> r.leaf, node |-> [self EXCEPT !.arg_r = Some(r.node)]]
      [] self.kind = "Ternary" /\ is_some(self.failure) ->
            LET r == take_last_leaf(unwrap(self.failure))
            IN  [leaf |-> r.leaf, node |-> [self EXCEPT !.failure = Some(r.node)]]
      [] self.kind = "Ternary" /\ is_none(self.failure) /\ is_some(self.success) ->
            LET r == take_last_leaf(unwrap(self.success))
            IN  [leaf |-> r.leaf, node |-> [self EXCEPT !.success = Some(r.node)]]
      [] self.kind = "Ternary" /\ is_none(self.failure) /\ is_none(self.success)
                               /\ is_some(self.condition) ->
            LET r == take_last_leaf(unwrap(self.condition))
            IN  [leaf |-> r.leaf, node |-> [self EXCEPT !.condition = Some(r.node)]]
      [] self.kind = "Unary" /\ is_some(self.arg) ->
            LET r == take_last_leaf(unwrap(self.arg))
            IN  [leaf |-> r.leaf, node |-> [self EXCEPT !.arg = Some(r.node)]]
      [] OTHER -> [leaf |-> None, node |-> self]

(***************************************************************************)
(* The operators (parser/tree/binary.rs and unary.rs).  Their               *)
(* associativity follows the C table: postfix increment and decrement and   *)
(* the non-assigning binary operators group left to right, the prefix       *)
(* operators and the assignments right to left.                             *)
(***************************************************************************)
UnaryOperators ==
    {"BitwiseNot", "LogicalNot", "AddressOf", "PostfixIncrement", "PrefixIncrement",
     "PostfixDecrement", "PrefixDecrement", "Minus", "Plus", "Indirection"}
AssignOperators ==
    {"Assign", "AddAssign", "AndAssign", "DivAssign", "ModAssign", "MulAssign",
     "OrAssign", "SubAssign", "XorAssign", "LeftShiftAssign", "RightShiftAssign"}

associativity(operator) ==
    IF operator \in {"PostfixIncrement", "PostfixDecrement"} THEN "LeftToRight"
    ELSE IF operator \in UnaryOperators \cup AssignOperators THEN "RightToLeft"
    ELSE "LeftToRight"

\* Into<Node> / take_operator: the operator's node with every slot unfilled.
take_operator(operator) ==
    IF operator \in UnaryOperators THEN Unary(operator, None)
    ELSE Binary(operator, None, None)

\* AddArgument::add_argument: fills the first unfilled slot.
add_argument(opnode, arg) ==
    CASE opnode.kind = "Unary" /\ is_none(opnode.arg) -> [opnode EXCEPT !.arg = Some(arg)]
      [] opnode.kind = "Binary" /\ is_none(opnode.arg_l) -> [opnode EXCEPT !.arg_l = Some(arg)]
      [] opnode.kind = "Binary" /\ is_none(opnode.arg_r) -> [opnode EXCEPT !.arg_r = Some(arg)]
      [] OTHER -> opnode

(***************************************************************************)
(* Node::push_op.  In the left-to-right arm the leaf has already been       *)
(* taken out of the tree when push_node_as_leaf is called, so the Err of    *)
(* that call is returned with the tree as take_last_leaf left it.           *)
(***************************************************************************)
push_op(self, operator) ==
    IF associativity(operator) = "LeftToRight"
    THEN LET taken == take_last_leaf(self)
         IN  IF is_none(taken.leaf)
             THEN Err(self)
             ELSE push_node_as_leaf(taken.node,
                      add_argument(take_operator(operator), Leaf(unwrap(taken.leaf))))
    ELSE LET pushed == push_node_as_leaf(self, take_operator(operator))
         IN  IF pushed.ok THEN pushed ELSE Err(self)

(***************************************************************************)
(* safe_decr: checked_sub(1) leaves the counter alone when it is 0.         *)
(***************************************************************************)
safe_decr_unchecked(counter) == [ok |-> TRUE, counter |-> counter - 1]

safe_decr(counter) ==
    IF counter = 0 THEN [ok |-> FALSE, counter |-> counter]
    ELSE [ok |-> TRUE, counter |-> counter - 1]

Outcome(res, cur, ps) == [res |-> res, current |-> cur, p_state |-> ps]

(***************************************************************************)
(* handle_colon                                                            *)
(***************************************************************************)
handle_colon(cur, ps) ==
    IF cur.kind = "Ternary"
    THEN IF is_none(cur.condition) \/ is_none(cur.success) \/ ps.ternary = 0
         THEN Outcome("Err", cur, ps)
         ELSE Outcome("OkTrue", [cur EXCEPT !.failure = Some(Empty)],
                      [ps EXCEPT !.ternary = @ - 1])
    ELSE Outcome("Err", cur, ps)

(***************************************************************************)
(* The symbols of handle_one_symbol, by the arm that handles them.          *)
(***************************************************************************)
SingleSymbols ==
    {"BitwiseNot", "LogicalNot", "Assign", "BitwiseOr", "BitwiseXor", "Divide", "Gt",
     "Lt", "Modulo", "AddAssign", "AndAssign", "Different", "DivAssign", "Equal", "Ge",
     "Le", "LogicalAnd", "LogicalOr", "ModAssign", "MulAssign", "OrAssign", "LeftShift",
     "RightShift", "SubAssign", "XorAssign", "LeftShiftAssign", "RightShiftAssign",
     "Ampercent", "Arrow", "Dot"}
AmbiguousSymbols == {"Increment", "Decrement", "Minus", "Plus", "Star"}

\* The operator of a symbol that has one reading.
single_operator(symbol) ==
    CASE symbol = "Ampercent" -> "AddressOf"
      [] symbol = "Arrow" -> "StructEnumMemberPointerAccess"
      [] symbol = "Dot" -> "StructEnumMemberAccess"
      [] OTHER -> symbol

\* The operator tried first (binary or postfix) for an ambiguous symbol.
first_operator(symbol) ==
    CASE symbol = "Increment" -> "PostfixIncrement"
      [] symbol = "Decrement" -> "PostfixDecrement"
      [] symbol = "Minus" -> "Subtract"
      [] symbol = "Plus" -> "Add"
      [] symbol = "Star" -> "Multiply"

\* The operator given as the argument of unwrap_or (unary or prefix).
second_operator(symbol) ==
    CASE symbol = "Increment" -> "PrefixIncrement"
      [] symbol = "Decrement" -> "PrefixDecrement"
      [] symbol = "Minus" -> "Minus"
      [] symbol = "Plus" -> "Plus"
      [] symbol = "Star" -> "Indirection"

(***************************************************************************)
(* `a.push_op(X).unwrap_or(a.push_op(Y)?)`: the receiver is evaluated, then *)
(* the argument of unwrap_or, which is not lazy: push_op(Y) runs on the     *)
(* tree push_op(X) left, whatever push_op(X) returned, and its Err leaves   *)
(* the function through `?`.                                                *)
(***************************************************************************)
push_ambiguous(cur, symbol) ==
    LET first == push_op(cur, first_operator(symbol))
        second == push_op(first.node, second_operator(symbol))
    IN  second

(***************************************************************************)
(* handle_one_symbol                                                       *)
(***************************************************************************)
handle_one_symbol(symbol, cur, ps) ==
    CASE symbol \in SingleSymbols ->
            LET r == push_op(cur, single_operator(symbol))
            IN  Outcome(IF r.ok THEN "OkTrue" ELSE "Err", r.node, ps)
      [] symbol \in AmbiguousSymbols ->
            LET r == push_ambiguous(cur, symbol)
            IN  Outcome(IF r.ok THEN "OkTrue" ELSE "Err", r.node, ps)
      [] symbol = "Interrogation" ->
            Outcome("OkTrue", Ternary(Some(cur), Some(Empty), None),
                    [ps EXCEPT !.ternary = @ + 1])
      [] symbol = "Colon" -> handle_colon(cur, ps)
      [] symbol = "SemiColon" -> Outcome("OkFalse", cur, ps)
      [] symbol = "Comma" -> Outcome("Panic", cur, ps)
      [] symbol = "BraceOpen" -> Outcome("OkTrue", cur, [ps EXCEPT !.braces = @ + 1])
      [] symbol = "BraceClose" ->
            LET d == safe_decr(ps.braces)
            IN  Outcome(IF d.ok THEN "OkFalse" ELSE "Err", cur,
                        [ps EXCEPT !.braces = d.counter])
      [] symbol = "BracketOpen" -> Outcome("OkTrue", cur, [ps EXCEPT !.brackets = @ + 1])
      [] symbol = "BracketClose" ->
            LET d == safe_decr(ps.brackets)
            IN  Outcome(IF d.ok THEN "OkFalse" ELSE "Err", cur,
                        [ps EXCEPT !.brackets = d.counter])
      [] symbol = "ParenthesisOpen" ->
            Outcome("OkTrue", cur, [ps EXCEPT !.parenthesis = @ + 1])
      [] symbol = "ParenthesisClose" ->
            LET d == safe_decr(ps.parenthesis)
            IN  Outcome(IF d.ok THEN "OkFalse" ELSE "Err", cur,
                        [ps EXCEPT !.parenthesis = d.counter])

(***************************************************************************)
(* The parser as a state machine.  A token is a leaf name or a symbol.      *)
(* After an Err (handle_symbol returns it to its caller) or a panic no      *)
(* further token of the sequence is handled.                                *)
(***************************************************************************)
MaxTokens == 5

Leaves == {"a", "b", "c"}
ExprSymbols ==
    {"Plus", "Star", "Increment", "Assign", "LogicalNot", "Dot",
     "Interrogation", "Colon", "SemiColon", "Comma"}
NestLeaves == {"a"}
NestSymbols ==
    {"ParenthesisOpen", "ParenthesisClose", "BracketOpen", "BracketClose",
     "BraceOpen", "BraceClose", "Plus", "SemiColon"}

NestingKinds == {"parenthesis", "brackets", "braces"}
Opener(kind) ==
    CASE kind = "parenthesis" -> "ParenthesisOpen"
      [] kind = "brackets" -> "BracketOpen"
      [] kind = "braces" -> "BraceOpen"
Closer(kind) ==
    CASE kind = "parenthesis" -> "ParenthesisClose"
      [] kind = "brackets" -> "BracketClose"
      [] kind = "braces" -> "BraceClose"

ParserInit ==
    /\ current = Empty
    /\ p_state = [parenthesis |-> 0, brackets |-> 0, braces |-> 0, ternary |-> 0]
    /\ history = <<>>
    /\ outcome = "None"
    /\ opened = [k \in NestingKinds |-> 0]
    /\ closed = [k \in NestingKinds |-> 0]

ParserRunning == outcome \notin {"Err", "Panic"} /\ Len(history) < MaxTokens

\* A literal token: the caller hands it to push_node_as_leaf.
PushLeaf(lit) ==
    /\ ParserRunning
    /\ LET r == push_node_as_leaf(current, Leaf(lit))
       IN  /\ current' = r.node
           /\ outcome' = IF r.ok THEN "Ok" ELSE "Err"
    /\ history' = Append(history, lit)
    /\ UNCHANGED <<p_state, opened, closed>>
    /\ UNCHANGED NotParser

\* handle_symbol: Err is returned, Ok(true) goes on with the next tokens and
\* Ok(false) returns Ok(()) without reading on.
HandleSymbol(symbol) ==
    /\ ParserRunning
    /\ LET r == handle_one_symbol(symbol, current, p_state)
       IN  /\ current' = r.current
           /\ p_state' = r.p_state
           /\ outcome' = r.res
           /\ opened' = [k \in NestingKinds |->
                            IF symbol = Opener(k) THEN opened[k] + 1 ELSE opened[k]]
           /\ closed' = [k \in NestingKinds |->
                            IF symbol = Closer(k) /\ r.res = "OkFalse"
                            THEN closed[k] + 1 ELSE closed[k]]
    /\ history' = Append(history, symbol)
    /\ UNCHANGED NotParser

(***************************************************************************)
(* CompileError and LexingData.  A diagnostic is its severity and its       *)
(* message; the location plays no part in what is modelled.                 *)
(***************************************************************************)
ErrorLevels == {"Warning", "Error", "Suggestion"}
CompileError(err_lvl, message) == [err_lvl |-> err_lvl, message |-> message]
\* A formatted message: its fixed text and the number formatted into it (0 when
\* the format has none).
Message(text, found) == [text |-> text, found |-> found]
to_error(message) == CompileError("Error", message)
to_warning(message) == CompileError("Warning", message)

\* CompileError::is_error: the severity is Error.
is_error(error) == error.err_lvl = "Error"

LexingData(errors, toks, failed) ==
    [errors |-> errors, tokens |-> toks, failed |-> failed]

push_err_any_level(ld, error) ==
    [ld EXCEPT !.errors = Append(@, error), !.failed = TRUE]

push_err(ld, error) ==
    [ld EXCEPT !.errors = Append(@, error),
               !.failed = IF is_error(error) THEN TRUE ELSE @]

push_token(ld, token) == [ld EXCEPT !.tokens = Append(@, token)]
pop_token(ld) ==
    [ld EXCEPT !.tokens = IF @ = <<>> THEN @ ELSE SubSeq(@, 1, Len(@) - 1)]
take_errors(ld) == [ld EXCEPT !.errors = <<>>]
take_tokens(ld) == [ld EXCEPT !.tokens = <<>>]
failed(ld) == ld.failed

MaxErrors == 3
MaxLexTokens == 2
LexTokens == {"t1", "t2"}

LexDataInit ==
    /\ lex_data = LexingData(<<>>, <<>>, FALSE)
    /\ error_pushed = FALSE

PushErr(err_lvl) ==
    /\ Len(lex_data.errors) < MaxErrors
    /\ lex_data' = push_err(lex_data, CompileError(err_lvl, Message("diagnostic", 0)))
    /\ error_pushed' = (error_pushed \/ err_lvl = "Error")
    /\ UNCHANGED NotLexData

PushToken(token) ==
    /\ Len(lex_data.tokens) < MaxLexTokens
    /\ lex_data' = push_token(lex_data, token)
    /\ UNCHANGED <<error_pushed, NotLexData>>

PopToken ==
    /\ lex_data' = pop_token(lex_data)
    /\ UNCHANGED <<error_pushed, NotLexData>>

TakeErrors ==
    /\ lex_data' = take_errors(lex_data)
    /\ UNCHANGED <<error_pushed, NotLexData>>

TakeTokens ==
    /\ lex_data' = take_tokens(lex_data)
    /\ UNCHANGED <<error_pushed, NotLexData>>

NextLexData ==
    \/ \E err_lvl \in ErrorLevels : PushErr(err_lvl)
    \/ \E token \in LexTokens : PushToken(token)
    \/ PopToken
    \/ TakeErrors
    \/ TakeTokens


(***************************************************************************)
(* The escape sub-lexer (lexer/handle_state.rs).  A character is a          *)
(* one-character string, a decoded character its code point, the value of   *)
(* a sequence the sequence of the characters pushed into its String.        *)
(***************************************************************************)
HexDigits ==
    {"0", "1", "2", "3", "4", "5", "6", "7", "8", "9",
     "a", "b", "c", "d", "e", "f", "A", "B", "C", "D", "E", "F"}
OctDigits == {"0", "1", "2", "3", "4", "5", "6", "7"}
DecDigits == OctDigits \cup {"8", "9"}

\* char::to_digit(16)
DigitValue(ch) ==
    CASE ch \in {"a", "A"} -> 10 [] ch \in {"b", "B"} -> 11 [] ch \in {"c", "C"} -> 12
      [] ch \in {"d", "D"} -> 13 [] ch \in {"e", "E"} -> 14 [] ch \in {"f", "F"} -> 15
      [] ch = "0" -> 0 [] ch = "1" -> 1 [] ch = "2" -> 2 [] ch = "3" -> 3
      [] ch = "4" -> 4 [] ch = "5" -> 5 [] ch = "6" -> 6 [] ch = "7" -> 7
      [] ch = "8" -> 8 [] ch = "9" -> 9

is_ascii_hexdigit(ch) == ch \in HexDigits
is_ascii_octdigit(ch) == ch \in OctDigits
is_ascii_digit(ch) == ch \in DecDigits
\* char::is_numeric, on the ASCII characters of the model.
is_numeric(ch) == ch \in DecDigits

(***************************************************************************)
(* uN::from_str_radix(value, radix) for a type whose greatest value is max: *)
(* Err on an empty string, on a character that is no digit of the radix     *)
(* and on a value above max.  `limited` is FALSE for u32, which the at most *)
(* 8 digits of an escape cannot overflow.                                   *)
(***************************************************************************)
RECURSIVE radix_fold(_, _, _)
radix_fold(value, radix, acc) ==
    IF value = <<>> THEN acc
    ELSE radix_fold(Tail(value), radix, acc * radix + DigitValue(Head(value)))

from_str_radix(value, radix, limited, max) ==
    IF \/ value = <<>>
       \/ \E i \in 1..Len(value) :
              ~is_ascii_hexdigit(value[i]) \/ DigitValue(value[i]) >= radix
    THEN [ok |-> FALSE, val |-> 0]
    ELSE LET val == radix_fold(value, radix, 0)
         IN  IF limited /\ val > max THEN [ok |-> FALSE, val |-> 0]
             ELSE [ok |-> TRUE, val |-> val]

MaxU8 == 255
from_str_radix_u32(value, radix) == from_str_radix(value, radix, FALSE, 0)
from_str_radix_u8(value, radix) == from_str_radix(value, radix, TRUE, MaxU8)

\* char::from_u32: None for a surrogate and above the last code point.
SurrogateFirst == 55296
SurrogateLast == 57343
LastCodePoint == 1114111
char_from_u32(val) ==
    IF (SurrogateFirst <= val /\ val <= SurrogateLast) \/ val > LastCodePoint
    THEN None ELSE Some(val)

\* EscapeStatus and EscapeSequence (lexer/types/escape_state.rs).
EscapeFalse == [status |-> "False"]
EscapeSingle == [status |-> "Single"]
EscapeSequence(kind, value) == [kind |-> kind, value |-> value]
Sequence(sequence) == [status |-> "Sequence", sequence |-> sequence]
is_octal(sequence) == sequence.kind = "Octal"
max_len(sequence) ==
    CASE sequence.kind = "ShortUnicode" -> 4
      [] sequence.kind = "Unicode" -> 8
      [] sequence.kind = "Hexadecimal" -> 2
      [] sequence.kind = "Octal" -> 3

\* What end_escape_sequence leaves: the diagnostics, Ok(char) as Some and
\* Err(()) as None, and whether an assert or an expect failed.
EndResult(ld, ret) == [lex_data |-> ld, ret |-> ret, panic |-> FALSE]
EndPanic(ld) == [lex_data |-> ld, ret |-> None, panic |-> TRUE]

end_unicode_sequence(ld, value) ==
    LET parsed == from_str_radix_u32(value, 16)
    IN  IF ~parsed.ok
        THEN EndResult(push_err(ld,
                 to_error(Message("Invalid escaped unicode number: ", 0))), None)
        ELSE IF is_some(char_from_u32(parsed.val))
        THEN EndResult(ld, char_from_u32(parsed.val))
        ELSE EndResult(push_err(ld,
                 to_error(Message("is not a valid unicode character.", 0))), None)

MinLengthText == "must contain 4 digits, but found only"

expect_min_length(ld, size, value) ==
    IF Len(value) < size
    THEN [ok |-> FALSE,
          lex_data |-> push_err(ld, to_error(Message(MinLengthText, Len(value))))]
    ELSE [ok |-> TRUE, lex_data |-> ld]

\* TRUE when the assert holds.
expect_max_length(size, value) == Len(value) <= size

end_short_unicode(ld, value) ==
    IF ~expect_max_length(4, value) THEN EndPanic(ld)
    ELSE LET min == expect_min_length(ld, 4, value)
         IN  IF ~min.ok THEN EndResult(min.lex_data, None)
             ELSE end_unicode_sequence(ld, value)

end_unicode(ld, value) ==
    IF Len(value) <= 4
    THEN EndResult(push_err(ld,
             to_error(Message("must contain 8 hexadecimal digits, found only",
                              Len(value)))), None)
    ELSE IF ~expect_max_length(8, value) THEN EndPanic(ld)
    ELSE LET min == expect_min_length(ld, 8, value)
         IN  IF ~min.ok THEN EndResult(min.lex_data, None)
             ELSE end_unicode_sequence(ld, value)

end_hexadecimal(ld, value) ==
    IF ~expect_max_length(3, value) THEN EndPanic(ld)
    ELSE LET min == expect_min_length(ld, 2, value)
         IN  IF ~min.ok THEN EndResult(min.lex_data, None)
             ELSE LET int == from_str_radix_u8(value, 16)
                  IN  IF int.ok THEN EndResult(ld, Some(int.val)) ELSE EndPanic(ld)

end_octal_truncating(ld, value) ==
    IF ~expect_max_length(3, value) THEN EndPanic(ld)
    ELSE LET min == expect_min_length(ld, 1, value)
             int == from_str_radix_u32(value, 8)
         IN  IF ~min.ok THEN EndResult(min.lex_data, None)
             ELSE IF int.ok THEN EndResult(ld, Some(int.val % (MaxU8 + 1)))
             ELSE EndResult(push_err(ld,
                      to_error(Message("Invalid octal escape sequence :", 0))), None)

end_octal(ld, value) ==
    IF ~expect_max_length(3, value) THEN EndPanic(ld)
    ELSE LET min == expect_min_length(ld, 1, value)
             int == from_str_radix_u32(value, 8)
             octal_int == from_str_radix_u8(SubSeq(value, 1, 2), 8)
         IN  IF ~min.ok THEN EndResult(min.lex_data, None)
             ELSE IF int.ok /\ (Len(value) < 3 \/ int.val <= MaxU8)
             THEN EndResult(ld, Some(int.val % (MaxU8 + 1)))
             ELSE IF int.ok
             THEN IF octal_int.ok THEN EndResult(ld, Some(octal_int.val))
                  ELSE EndResult(push_err(ld,
                           to_error(Message("Invalid octal escape sequence: ", 0))), None)
             ELSE EndResult(push_err(ld,
                      to_error(Message("Invalid octal escape sequence :", 0))), None)

end_escape_sequence(ld, sequence) ==
    CASE sequence.kind = "ShortUnicode" -> end_short_unicode(ld, sequence.value)
      [] sequence.kind = "Unicode" -> end_unicode(ld, sequence.value)
      [] sequence.kind = "Hexadecimal" -> end_hexadecimal(ld, sequence.value)
      [] sequence.kind = "Octal" -> end_octal(ld, sequence.value)

\* What a call of the sub-lexer leaves: the returned Option<char>, the
\* diagnostics, the escape status, whether it panicked, and, when it called
\* end_escape_sequence, the sequence it called it on.
Escaped(ret, ld, status, panic, ended) ==
    [ret |-> ret, lex_data |-> ld, escape_status |-> status, panic |-> panic,
     ended |-> ended]

\* The call has ended the sequence: what end_escape_sequence left is returned.
sequence_ended(end, sequence) ==
    Escaped(end.ret, end.lex_data, Sequence(sequence), end.panic, Some(sequence))

sequence_pushed(pushed, ld) ==
    IF Len(pushed.value) = max_len(pushed)
    THEN sequence_ended(end_escape_sequence(ld, pushed), pushed)
    ELSE Escaped(None, ld, Sequence(pushed), FALSE, None)

handle_escaped_sequence(ch, sequence, ld) ==
    IF ~is_ascii_hexdigit(ch) \/ (is_octal(sequence) /\ ~is_ascii_octdigit(ch))
    THEN sequence_ended(end_escape_sequence(ld, sequence), sequence)
    ELSE sequence_pushed([sequence EXCEPT !.value = Append(@, ch)], ld)

\* The characters with a one-character escape, except NUL.
SimpleEscapes == {"a", "b", "t", "n", "v", "f", "r", "e", "\"", "'", "?", "\\"}
SimpleEscapeValue(ch) ==
    CASE ch = "a" -> 7 [] ch = "b" -> 8 [] ch = "t" -> 9 [] ch = "n" -> 10
      [] ch = "v" -> 11 [] ch = "f" -> 12 [] ch = "r" -> 13 [] ch = "e" -> 27
      [] ch = "\"" -> 34 [] ch = "'" -> 39 [] ch = "?" -> 63 [] ch = "\\" -> 92

\* The first arm matches the NUL character ('\0' in Rust), written "NUL" here;
\* the digit "0" is numeric and starts an octal sequence.
handle_escape_one_char(ch, ld) ==
    CASE ch = "NUL" -> Escaped(Some(0), ld, EscapeFalse, FALSE, None)
      [] ch \in SimpleEscapes ->
            Escaped(Some(SimpleEscapeValue(ch)), ld, EscapeFalse, FALSE, None)
      [] ch = "u" ->
            Escaped(None, ld, Sequence(EscapeSequence("ShortUnicode", <<>>)), FALSE, None)
      [] ch = "U" ->
            Escaped(None, ld, Sequence(EscapeSequence("Unicode", <<>>)), FALSE, None)
      [] ch = "x" ->
            Escaped(None, ld, Sequence(EscapeSequence("Hexadecimal", <<>>)), FALSE, None)
      [] ch \notin SimpleEscapes \cup {"NUL", "u", "U", "x"} /\ is_numeric(ch) ->
            Escaped(None, ld, Sequence(EscapeSequence("Octal", <<ch>>)), FALSE, None)
      [] OTHER ->
            Escaped(None, push_err(ld, to_error(Message("can not be escaped", 0))),
                    EscapeFalse, FALSE, None)

handle_escape(ch, ld, status) ==
    CASE status.status = "Sequence" -> handle_escaped_sequence(ch, status.sequence, ld)
      [] status.status = "Single" -> handle_escape_one_char(ch, ld)
      [] status.status = "False" -> Escaped(None, ld, status, TRUE, None)

(***************************************************************************)
(* The caller of handle_escape (the lexer's handle_escaped).  handle_escape *)
(* leaves the status of a sequence as it is, whether the sequence has ended *)
(* or not, and returns None both for a digit that was consumed and for a    *)
(* sequence that ended in a diagnostic; the caller clears the escape status *)
(* when a character has been decoded.                                       *)
(***************************************************************************)
status_cleared(r) ==
    IF is_some(r.ret) THEN [r EXCEPT !.escape_status = EscapeFalse] ELSE r
handle_escaped(ch, ld, status) == status_cleared(handle_escape(ch, ld, status))

(***************************************************************************)
(* The escape sub-lexer as a state machine.                                 *)
(***************************************************************************)
MaxEscChars == 7
EscapeChars == {"0", "1", "4", "7", "8", "d", "u", "U", "x", "n", "z"}

EscapeInit ==
    /\ escape_status = EscapeFalse
    /\ decoded = None
    /\ last_end = None
    /\ esc_phase = "running"
    /\ esc_steps = 0

EscapeRunning == esc_phase = "running" /\ esc_steps < MaxEscChars

\* The diagnostics that a call added to ld.
Pushed(ld, after) == SubSeq(after.errors, Len(ld.errors) + 1, Len(after.errors))

\* '\\' => the escape status becomes Single.
Backslash ==
    /\ EscapeRunning
    /\ escape_status = EscapeFalse
    /\ escape_status' = EscapeSingle
    /\ decoded' = None
    /\ last_end' = None
    /\ esc_steps' = esc_steps + 1
    /\ UNCHANGED <<lex_data, esc_phase, NotEscape>>

\* The state that a call returning r leaves.
EscapedTo(r) ==
    /\ escape_status' = r.escape_status
    /\ lex_data' = r.lex_data
    /\ decoded' = r.ret
    /\ last_end' = IF is_none(r.ended) THEN None
                   ELSE Some([sequence |-> unwrap(r.ended), ret |-> r.ret,
                              pushed |-> Pushed(lex_data, r.lex_data),
                              panic |-> r.panic])
    /\ esc_phase' = IF r.panic THEN "panic" ELSE esc_phase

\* A character arrives while the escape status is not False.
HandleEscaped(ch) ==
    /\ EscapeRunning
    /\ escape_status # EscapeFalse
    /\ EscapedTo(handle_escaped(ch, lex_data, escape_status))
    /\ esc_steps' = esc_steps + 1
    /\ UNCHANGED NotEscape

\* The state that end_escape_sequence leaves at the end of the input.
EndedTo(r) ==
    /\ lex_data' = r.lex_data
    /\ decoded' = r.ret
    /\ last_end' = Some([sequence |-> escape_status.sequence, ret |-> r.ret,
                         pushed |-> Pushed(lex_data, r.lex_data),
                         panic |-> r.panic])
    /\ esc_phase' = IF r.panic THEN "panic" ELSE "done"

\* The end of the input with an escape pending: a lone backslash gives the
\* EOL token, an unfinished sequence is ended.
EscapeAtEnd ==
    /\ esc_phase = "running"
    /\ escape_status # EscapeFalse
    /\ IF escape_status = EscapeSingle
       THEN /\ lex_data' = push_token(lex_data, "EOL")
            /\ decoded' = None
            /\ last_end' = None
            /\ esc_phase' = "done"
       ELSE EndedTo(end_escape_sequence(lex_data, escape_status.sequence))
    /\ UNCHANGED <<escape_status, esc_steps, NotEscape>>

NextEscape ==
    \/ Backslash
    \/ \E ch \in EscapeChars : HandleEscaped(ch)
    \/ EscapeAtEnd


(***************************************************************************)
(* The hexadecimal literal sub-lexer (lexer/numbers/base/hexadecimal.rs).   *)
(***************************************************************************)
HexFloatParse(int_part, decimal_part, exponent, exponent_neg, state) ==
    [int_part |-> int_part, decimal_part |-> decimal_part, exponent |-> exponent,
     exponent_neg |-> exponent_neg, state |-> state]
HexFloatParseDefault == HexFloatParse(<<>>, <<>>, <<>>, None, "Int")

\* HexFloatParse::push
float_parse_push(fp, ch) ==
    CASE fp.state = "Int" -> [fp EXCEPT !.int_part = Append(@, ch)]
      [] fp.state = "Decimal" -> [fp EXCEPT !.decimal_part = Append(@, ch)]
      [] fp.state = "Exponent" -> [fp EXCEPT !.exponent = Append(@, ch)]

\* One character of the loop of get_hex_float_state: the first arm that
\* matches.  res is "Ok", "Err" (the `?` returns the diagnostic) or "Panic".
Scanned(res, fp, text) == [res |-> res, float_parse |-> fp, text |-> text]

hex_float_step(fp, ch) ==
    CASE ch \in {"+", "-"} /\ fp.state # "Exponent" -> Scanned("Panic", fp, "")
      [] ch \in {"+", "-"} /\ fp.state = "Exponent" /\ is_some(fp.exponent_neg) ->
            Scanned("Err", fp, "maximum one sign is allowed in a number literal.")
      [] ch = "-" /\ fp.state = "Exponent" /\ is_none(fp.exponent_neg) ->
            Scanned("Ok", [fp EXCEPT !.exponent_neg = Some(TRUE)], "")
      [] ch = "+" /\ fp.state = "Exponent" /\ is_none(fp.exponent_neg) ->
            Scanned("Ok", [fp EXCEPT !.exponent_neg = Some(FALSE)], "")
      [] ch \notin {"+", "-"} /\ fp.state = "Exponent" /\ is_ascii_digit(ch) ->
            Scanned("Ok", float_parse_push(fp, ch), "")
      [] ch \notin {"+", "-"} /\ fp.state = "Exponent" /\ ~is_ascii_digit(ch) ->
            Scanned("Err", fp, "invalid character for exponent. Expected an ascii digit")
      [] fp.state # "Exponent" /\ is_ascii_hexdigit(ch) ->
            Scanned("Ok", float_parse_push(fp, ch), "")
      [] ch = "." /\ fp.state = "Int" ->
            Scanned("Ok", [fp EXCEPT !.state = "Decimal"], "")
      [] ch = "." /\ fp.state = "Decimal" ->
            Scanned("Err", fp, "maximum one '.' in number constant, but 2 were found.")
      [] ch \in {"p", "P"} /\ fp.state # "Exponent" ->
            Scanned("Ok", [fp EXCEPT !.state = "Exponent"], "")
      [] OTHER -> Scanned("Err", fp, "invalid character found in number constant")

(***************************************************************************)
(* The floating values, exactly: a finite value is m * 2^e with m odd (or   *)
(* 0 with e = 0).  Within the bounds of the model every sum has at most 24   *)
(* significant bits, so no operation of the code rounds.                    *)
(***************************************************************************)
RECURSIVE Dyadic(_, _)
Dyadic(m, e) ==
    IF m = 0 THEN [kind |-> "finite", m |-> 0, e |-> 0]
    ELSE IF m % 2 = 0 THEN Dyadic(m \div 2, e + 1)
    ELSE [kind |-> "finite", m |-> m, e |-> e]
Infinity == [kind |-> "inf", m |-> 0, e |-> 0]
NaN == [kind |-> "nan", m |-> 0, e |-> 0]

FloatAdd(x, y) ==
    LET low == IF x.e < y.e THEN x.e ELSE y.e
    IN  Dyadic(x.m * 2^(x.e - low) + y.m * 2^(y.e - low), low)
\* x * y for finite x and y.
FloatMul(x, y) == Dyadic(x.m * y.m, x.e + y.e)
\* x / y for finite x and for y zero or a power of two.
FloatDiv(x, y) ==
    IF y.m = 0 THEN (IF x.m = 0 THEN NaN ELSE Infinity)
    ELSE Dyadic(x.m, x.e - y.e)

\* The target types and the width of the unsigned type each float computes
\* its integer part in (lexer/numbers/types/arch_types.rs).
FloatTypes == {"Float", "Double"}
IntTypes == {"Int"}
IntPartBits(t) == IF t = "Float" THEN 32 ELSE 64
MANTISSA_SIZE == 23

\* str::parse::<u32>: Err above u32::MAX.  A value of 10 digits that fits is
\* returned as ExponentCap, which is above every IntPartBits.
U32MaxDigits == <<4, 2, 9, 4, 9, 6, 7, 2, 9, 5>>
ExponentCap == 1000000000
RECURSIVE StripZeros(_)
StripZeros(digits) ==
    IF digits # <<>> /\ Head(digits) = "0" THEN StripZeros(Tail(digits)) ELSE digits
RECURSIVE DigitsAbove(_, _)
DigitsAbove(digits, limit) ==
    IF digits = <<>> THEN FALSE
    ELSE IF DigitValue(Head(digits)) # Head(limit) THEN DigitValue(Head(digits)) > Head(limit)
    ELSE DigitsAbove(Tail(digits), Tail(limit))
parse_u32(digits) ==
    LET d == StripZeros(digits)
    IN  IF digits = <<>> \/ Len(d) > 10 \/ (Len(d) = 10 /\ DigitsAbove(d, U32MaxDigits))
        THEN [ok |-> FALSE, val |-> 0]
        ELSE IF Len(d) = 10 THEN [ok |-> TRUE, val |-> ExponentCap]
        ELSE [ok |-> TRUE, val |-> radix_fold(d, 10, 0)]

\* HexFloatParse::get_exp: the expect panics when parse fails.
get_exp(fp) ==
    IF fp.exponent = <<>> THEN [ok |-> TRUE, val |-> 0] ELSE parse_u32(fp.exponent)

\* <IntPart>::from_str_radix(&int_part, 16): Err on the empty string and on
\* more significant digits than the type has.
int_part_from_str_radix(int_part, t) ==
    IF int_part = <<>> \/ Len(StripZeros(int_part)) * 4 > IntPartBits(t)
    THEN [ok |-> FALSE, val |-> 0]
    ELSE [ok |-> TRUE, val |-> radix_fold(int_part, 16, 0)]

\* (2 as IntPart).pow(exp): on overflow a panic with overflow checks, and the
\* wrapped value, 0, without them.  The result is the float from_unsigned
\* makes of it.
pow_two(exp, t, checks) ==
    IF exp < IntPartBits(t) THEN [ok |-> TRUE, val |-> Dyadic(1, exp)]
    ELSE IF checks THEN [ok |-> FALSE, val |-> Dyadic(0, 0)]
    ELSE [ok |-> TRUE, val |-> Dyadic(0, 0)]

\* The loop over decimal_part: digit_value / 16^(idx + 1), summed.
RECURSIVE decimal_part_sum(_, _, _)
decimal_part_sum(decimal_part, idx, acc) ==
    IF decimal_part = <<>> THEN acc
    ELSE decimal_part_sum(Tail(decimal_part), idx + 1,
             FloatAdd(acc, FloatDiv(Dyadic(DigitValue(Head(decimal_part)), 0),
                                    Dyadic(1, 4 * (idx + 1)))))

\* What to_hex_value returns: Ok(Number) as "Value", Err(CompileError) as
\* "Error"; "Panic" when it does not return.  warning is the local `warning`
\* at the return, which is not part of the returned value.
HexValue(t, value, warning) ==
    [kind |-> "Value", type |-> t, value |-> value, warning |-> warning, text |-> ""]
HexError(text) ==
    [kind |-> "Error", type |-> "", value |-> NaN, warning |-> FALSE, text |-> text]
HexPanic == [kind |-> "Panic", type |-> "", value |-> NaN, warning |-> FALSE, text |-> ""]
HexNone == [kind |-> "None", type |-> "", value |-> NaN, warning |-> FALSE, text |-> ""]

\* from_unsigned sets the warning when val >= 2^MANTISSA_SIZE.
overflows_mantissa(value) ==
    value.kind = "finite" /\ value.m # 0 /\ value.e >= 0
        /\ (value.e >= MANTISSA_SIZE \/ value.m * 2^(value.e) >= 2^MANTISSA_SIZE)

parse_hexadecimal_float(fp, t, checks) ==
    LET int == int_part_from_str_radix(fp.int_part, t)
        exp == get_exp(fp)
        exponent == pow_two(exp.val, t, checks)
        int_part == Dyadic(int.val, 0)
        decimal_part == decimal_part_sum(fp.decimal_part, 0, Dyadic(0, 0))
        sum == FloatAdd(int_part, decimal_part)
        neg == IF is_some(fp.exponent_neg) THEN unwrap(fp.exponent_neg) ELSE FALSE
    IN  IF ~int.ok \/ ~exp.ok \/ ~exponent.ok THEN HexPanic
        ELSE HexValue(t,
                 IF neg THEN FloatDiv(sum, exponent.val) ELSE FloatMul(sum, exponent.val),
                 overflows_mantissa(int_part) \/ overflows_mantissa(exponent.val))

(***************************************************************************)
(* parse_int_from_radix! (lexer/numbers/parse.rs): the literal in radix 16  *)
(* as the integer type, or a diagnostic.                                    *)
(***************************************************************************)
IntBits == 32
parse_int_from_radix(lit, t) ==
    IF lit = <<>> \/ \E i \in 1..Len(lit) : ~is_ascii_hexdigit(lit[i])
    THEN HexError("invalid hexadecimal number")
    ELSE IF Len(StripZeros(lit)) * 4 >= IntBits
    THEN HexError("overflow")
    ELSE HexValue(t, Dyadic(radix_fold(lit, 16, 0), 0), FALSE)

\* The diagnostics that the caller of to_hex_value receives: the Err of the
\* returned Result.  Ok carries the Number alone; the local `warning` is
\* dropped when the function returns.
hex_diagnostics(result) ==
    IF result.kind = "Error" THEN <<to_error(Message(result.text, 0))>> ELSE <<>>

\* to_hex_value after get_hex_float_state has returned Ok(float_parse).
to_hex_value(lit, fp, t, checks) ==
    IF t \in IntTypes THEN parse_int_from_radix(lit, t)
    ELSE parse_hexadecimal_float(fp, t, checks)

(***************************************************************************)
(* to_hex_value as a state machine: the characters of the literal one by    *)
(* one through get_hex_float_state, then the conversion.                    *)
(***************************************************************************)
MaxLiteral == 3
HexChars == {"1", "8", ".", "p", "+", "-", "g"}
ExampleLiterals ==
    { <<"1", ".", "8", "p", "3">>, <<"1", ".", "8", "p", "-", "1">>,
      <<".", "8", "p", "1">>, <<"1", "p", "3", "-", "2">>,
      <<"1", "p", "2", "3">>, <<"1", "p", "4", "0">>, <<"1", "p", "9", "9">>,
      <<"8", "0", "0", "0", "0", "0">>, <<"8", "0", "0", "0", "0", "1", "p", "1">>,
      <<"1", "p", "9", "9", "9", "9", "9", "9", "9", "9", "9", "9", "9">> }

SeqsUpTo(S, n) == UNION {[1..k -> S] : k \in 0..n}

HexIdle ==
    /\ literal = <<>>
    /\ nb_type = "Float"
    /\ overflow_checks = TRUE
    /\ hex_pos = 0
    /\ float_parse = HexFloatParseDefault
    /\ hex_result = HexNone
    /\ hex_phase = "idle"

HexInit ==
    /\ literal \in SeqsUpTo(HexChars, MaxLiteral) \cup ExampleLiterals
    /\ nb_type \in FloatTypes \cup IntTypes
    /\ overflow_checks \in BOOLEAN
    /\ hex_pos = 0
    /\ float_parse = HexFloatParseDefault
    /\ hex_result = HexNone
    /\ hex_phase = "scan"

\* get_hex_float_state: one turn of `for ch in literal.chars()`.
HexScanChar ==
    /\ hex_phase = "scan"
    /\ hex_pos < Len(literal)
    /\ LET r == hex_float_step(float_parse, literal[hex_pos + 1])
       IN  /\ float_parse' = r.float_parse
           /\ hex_result' = CASE r.res = "Ok" -> hex_result
                              [] r.res = "Err" -> HexError(r.text)
                              [] r.res = "Panic" -> HexPanic
           /\ hex_phase' = IF r.res = "Ok" THEN "scan" ELSE "failed"
    /\ hex_pos' = hex_pos + 1
    /\ UNCHANGED <<literal, nb_type, overflow_checks, NotHex>>

\* get_hex_float_state returns Ok(float_parse).
HexScanEnd ==
    /\ hex_phase = "scan"
    /\ hex_pos = Len(literal)
    /\ hex_phase' = "convert"
    /\ UNCHANGED <<literal, nb_type, overflow_checks, hex_pos, float_parse, hex_result,
                   NotHex>>

\* The rest of to_hex_value.
HexConvert ==
    /\ hex_phase = "convert"
    /\ hex_result' = to_hex_value(literal, float_parse, nb_type, overflow_checks)
    /\ hex_phase' = "done"
    /\ UNCHANGED <<literal, nb_type, overflow_checks, hex_pos, float_parse, NotHex>>

NextHex == HexScanChar \/ HexScanEnd \/ HexConvert


(***************************************************************************)
(* The character loop (parse/mod.rs).  Symbol is the enum of the file; the  *)
(* helpers of parse/special_chars.rs and parse/parsing_state.rs follow      *)
(* section 4.1 of the specification.                                        *)
(***************************************************************************)
Token(type, value) == [type |-> type, value |-> value]

\* The spellings of the Symbol enum, by length.
SymbolTable ==
    { <<<<"&">>, "Ampercent">>, <<<<"=">>, "Assign">>, <<<<"~">>, "BitwiseNot">>,
      <<<<"|">>, "BitwiseOr">>, <<<<"^">>, "BitwiseXor">>, <<<<"}">>, "BraceClose">>,
      <<<<"{">>, "BraceOpen">>, <<<<"]">>, "BracketClose">>, <<<<"[">>, "BracketOpen">>,
      <<<<":">>, "Colon">>, <<<<",">>, "Comma">>, <<<<"/">>, "Divide">>,
      <<<<".">>, "Dot">>, <<<<">">>, "Gt">>, <<<<"?">>, "Interrogation">>,
      <<<<"!">>, "LogicalNot">>, <<<<"<">>, "Lt">>, <<<<"-">>, "Minus">>,
      <<<<"%">>, "Modulo">>, <<<<")">>, "ParenthesisClose">>,
      <<<<"(">>, "ParenthesisOpen">>, <<<<"+">>, "Plus">>, <<<<";">>, "SemiColon">>,
      <<<<"*">>, "Star">>,
      <<<<"+", "=">>, "AddAssign">>, <<<<"&", "=">>, "AndAssign">>,
      <<<<"-", ">">>, "Arrow">>, <<<<"-", "-">>, "Decrement">>,
      <<<<"!", "=">>, "Different">>, <<<<"/", "=">>, "DivAssign">>,
      <<<<"=", "=">>, "Equal">>, <<<<">", "=">>, "Ge">>, <<<<"+", "+">>, "Increment">>,
      <<<<"<", "=">>, "Le">>, <<<<"&", "&">>, "LogicalAnd">>, <<<<"|", "|">>, "LogicalOr">>,
      <<<<"%", "=">>, "ModAssign">>, <<<<"*", "=">>, "MulAssign">>,
      <<<<"|", "=">>, "OrAssign">>, <<<<"<", "<">>, "ShiftLeft">>,
      <<<<">", ">">>, "ShiftRight">>, <<<<"-", "=">>, "SubAssign">>,
      <<<<"^", "=">>, "XorAssign">>,
      <<<<"<", "<", "=">>, "ShiftLeftAssign">>, <<<<">", ">", "=">>, "ShiftRightAssign">> }
SymbolSpellings == {entry[1] : entry \in SymbolTable}
SymbolOf(spelling) == (CHOOSE entry \in SymbolTable : entry[1] = spelling)[2]

\* The characters of the arm that calls handle_symbol.
SymbolCharsWithoutModulo ==
    {"+", "-", "(", ")", "[", "]", "{", "}", "~", "!", "*", "&", "/",
     ">", "<", "=", "|", "^", ",", "?", ":", ";"}

SymbolChars ==
    {"+", "-", "(", ")", "[", "]", "{", "}", "~", "!", "*", "&", "%", "/",
     ">", "<", "=", "|", "^", ",", "?", ":", ";"}

Letters ==
    {"a", "b", "c", "d", "e", "f", "g", "h", "i", "j", "k", "l", "m", "n", "o", "p", "q",
     "r", "s", "t", "u", "v", "w", "x", "y", "z", "A", "B", "C", "D", "E", "F", "G", "H",
     "I", "J", "K", "L", "M", "N", "O", "P", "Q", "R", "S", "T", "U", "V", "W", "X", "Y",
     "Z"}
is_alphanumeric(ch) == ch \in Letters \cup DecDigits
is_whitespace(ch) == ch = " "

\* ParsingState of the loop.  symbols is the pending operator characters (at
\* most 3), literal the pending identifier, number or string content.
LexerState(comments, escape, single_quote, double_quote, lit, symbols, errors) ==
    [comments |-> comments, escape |-> escape, single_quote |-> single_quote,
     double_quote |-> double_quote, literal |-> lit, symbols |-> symbols,
     errors |-> errors]
LexerStateFrom == LexerState("False", EscapeFalse, "Closed", FALSE, <<>>, <<>>, <<>>)

\* What an arm leaves: the state, the tokens, and whether it broke the loop.
Lexed(st, toks, brk) == [lexer_state |-> st, tokens |-> toks, brk |-> brk]

\* ParsingState::last, clear_last, clear, is_number, push_err
last(st) == IF st.symbols = <<>> THEN None ELSE Some(st.symbols[Len(st.symbols)])
clear_last(st) == [st EXCEPT !.symbols = SubSeq(@, 1, Len(@) - 1)]
clear(st) == [st EXCEPT !.symbols = SubSeq(@, 1, Len(@) - 1)]
is_number(st) ==
    /\ st.literal # <<>>
    /\ \/ is_ascii_digit(st.literal[1])
       \/ st.literal[1] = "." /\ Len(st.literal) >= 2 /\ is_ascii_digit(st.literal[2])
state_push_err(st, error) == [st EXCEPT !.errors = Append(@, error)]

\* The longest spelling of the table that starts the pending characters.
LongestSymbol(symbols) ==
    CHOOSE n \in 1..Len(symbols) :
        /\ SubSeq(symbols, 1, n) \in SymbolSpellings
        /\ \A m \in (n + 1)..Len(symbols) : SubSeq(symbols, 1, m) \notin SymbolSpellings

\* Emits the longest symbol that starts the pending characters.
end_one_operator(st, toks) ==
    LET n == LongestSymbol(st.symbols)
    IN  Lexed([st EXCEPT !.symbols = SubSeq(@, n + 1, Len(@))],
              Append(toks, Token("Symbol", <<SymbolOf(SubSeq(st.symbols, 1, n))>>)), FALSE)

\* end_operator: emits the pending characters as symbols, longest first.
RECURSIVE end_operator(_, _)
end_operator(st, toks) ==
    IF st.symbols = <<>> THEN Lexed(st, toks, FALSE)
    ELSE LET one == end_one_operator(st, toks)
         IN  end_operator(one.lexer_state, one.tokens)

\* end_literal: emits the pending literal as a number or an identifier.
end_literal(st, toks) ==
    IF st.literal = <<>> THEN Lexed(st, toks, FALSE)
    ELSE Lexed([st EXCEPT !.literal = <<>>],
               Append(toks, Token(IF is_number(st) THEN "Number" ELSE "Identifier",
                                  st.literal)), FALSE)

end_both(st, toks) ==
    LET op == end_operator(st, toks)
    IN  end_literal(op.lexer_state, op.tokens)

\* handle_symbol: the pending literal is emitted; a full buffer gives up its
\* longest symbol; the character joins the pending ones.
handle_symbol(ch, st, toks) ==
    LET lit == end_literal(st, toks)
        room == IF Len(lit.lexer_state.symbols) = 3
                THEN end_one_operator(lit.lexer_state, lit.tokens) ELSE lit
    IN  Lexed([room.lexer_state EXCEPT !.symbols = Append(@, ch)], room.tokens, FALSE)

handle_single_quotes(st) ==
    [st EXCEPT !.single_quote = IF @ = "Closed" THEN "Opened" ELSE "Closed"]

handle_double_quotes(st, toks) ==
    IF st.double_quote
    THEN Lexed([st EXCEPT !.double_quote = FALSE, !.literal = <<>>],
               Append(toks, Token("Str", st.literal)), FALSE)
    ELSE LET both == end_both(st, toks)
         IN  Lexed([both.lexer_state EXCEPT !.double_quote = TRUE], both.tokens, FALSE)

\* handle_escaped of parse/special_chars.rs, after section 4.2: the character
\* goes to the escape sub-lexer, whose decoding is that of handle_escape; the
\* escape state is cleared once the sequence is complete, whether it gave a
\* character or a diagnostic; a decoded character joins the content of an open
\* string.
escaped_into(st, r) ==
    [st EXCEPT !.escape = IF is_some(r.ended) THEN EscapeFalse ELSE r.escape_status,
               !.errors = r.lex_data.errors,
               !.literal = IF is_some(r.ret) /\ st.double_quote
                           THEN Append(@, ToString(unwrap(r.ret))) ELSE @]
lexer_handle_escaped(ch, st) ==
    escaped_into(st, handle_escape(ch, LexingData(st.errors, <<>>, FALSE), st.escape))

unsupported_character_break(ch, st, toks) ==
    LET both == end_both(st, toks)
    IN  Lexed(state_push_err(both.lexer_state,
                  to_error(Message("Character not supported by parser", 0))),
              both.tokens, TRUE)

\* The last arm: the pending tokens are emitted and the error is pushed.
unsupported_character(ch, st, toks) ==
    LET both == end_both(st, toks)
    IN  Lexed(state_push_err(both.lexer_state,
                  to_error(Message("Character not supported by parser", 0))),
              both.tokens, FALSE)

char_written_again(ch, st, toks) ==
    Lexed(st, Append(toks, Token("Char", <<ch>>)), FALSE)

\* The arm of a character that follows the content of a char literal.
char_written(ch, st, toks) ==
    Lexed(state_push_err(st,
              to_error(Message("A char must contain only one character", 0))),
          toks, FALSE)

(***************************************************************************)
(* The match of the loop: the first arm whose pattern and guard hold.       *)
(***************************************************************************)
parse_char(ch, st, toks) ==
    IF ch = "/" /\ st.comments = "Star" THEN Lexed([st EXCEPT !.comments = "False"], toks, FALSE)
    ELSE IF ch = "*" /\ st.comments = "True"
    THEN Lexed([st EXCEPT !.comments = "Star"], toks, FALSE)
    ELSE IF st.comments = "True" THEN Lexed(st, toks, FALSE)
    ELSE IF st.comments = "Star" THEN Lexed([st EXCEPT !.comments = "True"], toks, FALSE)
    ELSE IF st.escape # EscapeFalse THEN Lexed(lexer_handle_escaped(ch, st), toks, FALSE)
    ELSE IF ch = "*" /\ last(st) = Some("/")
    THEN LET both == end_both(clear_last(st), toks)
         IN  Lexed([both.lexer_state EXCEPT !.comments = "True"], both.tokens, FALSE)
    ELSE IF ch = "\\" THEN Lexed([st EXCEPT !.escape = EscapeSingle], toks, FALSE)
    ELSE IF ch = "'" THEN Lexed(handle_single_quotes(st), toks, FALSE)
    ELSE IF ch = "\"" THEN handle_double_quotes(st, toks)
    ELSE IF st.single_quote = "Written" THEN char_written(ch, st, toks)
    ELSE IF st.single_quote = "Opened"
    THEN Lexed([st EXCEPT !.single_quote = "Written"],
               Append(toks, Token("Char", <<ch>>)), FALSE)
    ELSE IF st.double_quote THEN Lexed([st EXCEPT !.literal = Append(@, ch)], toks, FALSE)
    ELSE IF ch = "/" /\ last(st) = Some("/") THEN Lexed(clear(st), toks, TRUE)
    ELSE IF ch \in SymbolChars THEN handle_symbol(ch, st, toks)
    ELSE IF ch = "." /\ ~is_number(st) THEN handle_symbol(ch, st, toks)
    ELSE IF is_whitespace(ch) THEN end_both(st, toks)
    ELSE IF is_alphanumeric(ch) \/ ch = "_" \/ ch = "."
    THEN LET op == end_operator(st, toks)
         IN  Lexed([op.lexer_state EXCEPT !.literal = Append(@, ch)], op.tokens, FALSE)
    ELSE unsupported_character(ch, st, toks)

\* After the loop: a pending escape is resolved, then the pending tokens are
\* emitted.
end_pending_escape(st, toks) ==
    IF st.escape = EscapeFalse THEN Lexed(st, toks, FALSE)
    ELSE IF st.escape = EscapeSingle
    THEN Lexed(st, Append(toks, Token("Symbol", <<"EOL">>)), FALSE)
    ELSE Lexed([st EXCEPT !.errors =
                    end_escape_sequence(LexingData(@, <<>>, FALSE),
                                        st.escape.sequence).lex_data.errors],
               toks, FALSE)
end_both_of(escaped) == end_both(escaped.lexer_state, escaped.tokens)
parse_end(st, toks) == end_both_of(end_pending_escape(st, toks))

\* parse as a function: the loop from character i on, then what follows it.
RECURSIVE parse_loop(_, _, _, _)
parse_loop(expression, i, st, toks) ==
    IF i > Len(expression) THEN Lexed(st, toks, FALSE)
    ELSE LET r == parse_char(expression[i], st, toks)
         IN  IF r.brk THEN r ELSE parse_loop(expression, i + 1, r.lexer_state, r.tokens)

parse(expression) ==
    LET r == parse_loop(expression, 1, LexerStateFrom, <<>>)
    IN  parse_end(r.lexer_state, r.tokens)

(***************************************************************************)
(* parse as a state machine: one action per turn of the loop, one for what  *)
(* follows the loop.                                                        *)
(***************************************************************************)
MaxInput == 4
LexChars == {"a", "u", "+", "/", "*", "'", "\"", "\\", " ", "@"}

LexerIdle ==
    /\ input = <<>>
    /\ pos = 0
    /\ lexer_state = LexerStateFrom
    /\ tokens = <<>>
    /\ line_comment = FALSE
    /\ lex_phase = "idle"

LexerStart(inputs) ==
    /\ input \in inputs
    /\ pos = 0
    /\ lexer_state = LexerStateFrom
    /\ tokens = <<>>
    /\ line_comment = FALSE
    /\ lex_phase = "loop"

\* The state that an arm, or the end of parse, leaves.
LexedTo(r) ==
    /\ lexer_state' = r.lexer_state
    /\ tokens' = r.tokens
    /\ line_comment' = (r.brk \/ line_comment)

\* One turn of `for ch in expression.chars()`.
LexChar ==
    /\ lex_phase = "loop"
    /\ ~line_comment
    /\ pos < Len(input)
    /\ LexedTo(parse_char(input[pos + 1], lexer_state, tokens))
    /\ pos' = pos + 1
    /\ UNCHANGED <<input, lex_phase, NotLexer>>

\* The loop is over (the characters are exhausted, or the break was taken).
LexEnd ==
    /\ lex_phase = "loop"
    /\ line_comment \/ pos = Len(input)
    /\ LexedTo(parse_end(lexer_state, tokens))
    /\ lex_phase' = "done"
    /\ UNCHANGED <<input, pos, NotLexer>>

NextLexer == LexChar \/ LexEnd

Init == ParserInit /\ LexDataInit /\ EscapeInit /\ HexIdle /\ LexerIdle

Next ==
    \/ \E lit \in Leaves : PushLeaf(lit)
    \/ \E symbol \in ExprSymbols : HandleSymbol(symbol)

Spec == Init /\ [][Next]_vars

NextNesting ==
    \/ \E lit \in NestLeaves : PushLeaf(lit)
    \/ \E symbol \in NestSymbols : HandleSymbol(symbol)

SpecNesting == Init /\ [][NextNesting]_vars

SpecLexData == Init /\ [][NextLexData]_vars

SpecEscape == Init /\ [][NextEscape]_vars

InitHex == ParserInit /\ LexDataInit /\ EscapeInit /\ HexInit /\ LexerIdle
SpecHex == InitHex /\ [][NextHex]_vars

\* Block comments that end after a run of '*'.
CommentInputs ==
    { <<"/", "*", "*", "*", "/">>, <<"/", "*", "a", "*", "*", "/", "a">> }

InitLexer ==
    ParserInit /\ LexDataInit /\ EscapeInit /\ HexIdle
        /\ LexerStart(SeqsUpTo(LexChars, MaxInput) \cup CommentInputs)
SpecLexer == InitLexer /\ [][NextLexer]_vars

InitSymbols ==
    ParserInit /\ LexDataInit /\ EscapeInit /\ HexIdle /\ LexerStart(SymbolSpellings)
SpecSymbols == InitSymbols /\ [][NextLexer]_vars

(***************************************************************************)
(* Claims about the expression-tree parser.                                 *)
(***************************************************************************)
IsPrefix(s, t) == Len(s) <= Len(t) /\ s = SubSeq(t, 1, Len(s))
Last(s) == s[Len(s)]
Failed == outcome \in {"Err", "Panic"}

TokensAPlusBTimesC == <<"a", "Plus", "b", "Star", "c">>
TreeAPlusBTimesC ==
    Binary("Add", Some(Leaf("a")),
           Some(Binary("Multiply", Some(Leaf("b")), Some(Leaf("c")))))

\* C1: feeding a, +, b, *, c goes through without an error at any token and
\* ends in the tree +(a, *(b, c)).
C1_PrecedenceTree ==
    /\ IsPrefix(history, TokensAPlusBTimesC) => ~Failed
    /\ history = TokensAPlusBTimesC => current = TreeAPlusBTimesC

TokensTernary == <<"a", "Interrogation", "b", "Colon", "c">>
TreeTernary == Ternary(Some(Leaf("a")), Some(Leaf("b")), Some(Leaf("c")))

\* C2: feeding a, ?, b, :, c goes through without an error at any token and
\* ends in the single node Ternary(a, b, c) with the ternary depth back at 0.
C2_TernaryTree ==
    /\ IsPrefix(history, TokensTernary) => ~Failed
    /\ history = TokensTernary => current = TreeTernary /\ p_state.ternary = 0

\* C3: after any sequence of push_err, push_token, pop_token, take_errors and
\* take_tokens, failed() is true exactly when an Error-severity diagnostic has
\* ever been pushed: Warning and Suggestion never set it, and taking the
\* errors or the tokens out never resets it.
C3_FailedIffErrorPushed == failed(lex_data) <=> error_pushed

\* An Error was pushed and the errors were then taken out, a token staying.
C3_Witness ==
    /\ error_pushed
    /\ failed(lex_data)
    /\ lex_data.errors = <<>>
    /\ lex_data.tokens = <<"t1">>

\* What holds once parse has returned.
C4_LoopEnd ==
    lex_phase = "done" =>
        /\ IF line_comment
           THEN input[pos] = "/" /\ \E i \in 1..(pos - 1) : input[i] = "/"
           ELSE pos = Len(input)
        /\ (input # <<>> /\ input[1] = "@")
               => /\ tokens = parse(Tail(input)).tokens
                  /\ lexer_state.errors # <<>>
        /\ (Len(input) >= 2 /\ input[1] = "\\" /\ input[2] = "@")
               => /\ tokens = parse(SubSeq(input, 3, Len(input))).tokens
                  /\ lexer_state.errors # <<>>
        /\ (Len(input) >= 3 /\ input[1] = "\\" /\ input[2] = "u" /\ input[3] = "@")
               => /\ tokens = parse(SubSeq(input, 4, Len(input))).tokens
                  /\ lexer_state.errors # <<>>
        /\ (Len(input) >= 4 /\ input[1] = "'" /\ input[2] = "a" /\ input[3] = "a"
                /\ input[4] = "'")
               => /\ tokens # <<>>
                  /\ Head(tokens) = Token("Char", <<"a">>)
                  /\ Tail(tokens) = parse(SubSeq(input, 5, Len(input))).tokens
                  /\ lexer_state.errors # <<>>
\* A turn of the loop that records an error.
C4_ErrorTurn ==
    (lex_phase = "loop" /\ Len(lexer_state'.errors) > Len(lexer_state.errors))
        => ~line_comment'

C5_OneSymbolToken ==
    lex_phase = "done" =>
        /\ input \in SymbolSpellings
        /\ tokens = <<Token("Symbol", <<SymbolOf(input)>>)>>
        /\ lexer_state.errors = <<>>
        /\ pos = Len(input)
C5_Witness ==
    /\ lex_phase = "done"
    /\ input = <<"<", "<", "=">>
    /\ tokens = <<Token("Symbol", <<"ShiftLeftAssign">>)>>
    /\ lexer_state.errors = <<>>

C6_Counters ==
    \A k \in NestingKinds : p_state[k] = opened[k] - closed[k] /\ p_state[k] >= 0

C6_CloserAtZero ==
    \A k \in NestingKinds :
        (p_state[k] = 0 /\ history' = Append(history, Closer(k)))
            => outcome' = "Err" /\ p_state' = p_state /\ current' = current

\* C6: each nesting counter equals the openers handled minus the closers
\* accepted and is never negative; a closer handled while its own counter is 0
\* returns an error (so handle_symbol does not go on at that level) and leaves
\* the three counters and the tree as they were.
C6_NestingCounters == []C6_Counters /\ [][C6_CloserAtZero]_vars

\* "(a]": the bracket closer arrives with the bracket counter at 0 while a
\* parenthesis is open and a leaf is in the tree.
C6_Witness ==
    /\ history = <<"ParenthesisOpen", "a", "BracketClose">>
    /\ outcome = "Err"
    /\ p_state.parenthesis = 1 /\ p_state.brackets = 0
    /\ current = Leaf("a")

(***************************************************************************)
(* Claims about LexingData.                                                 *)
(***************************************************************************)

(***************************************************************************)
(* Claims about the escape sub-lexer.                                       *)
(***************************************************************************)
Ended == unwrap(last_end)
EndedKind(kind) == is_some(last_end) /\ Ended.sequence.kind = kind
EndedValue == Ended.sequence.value

\* The number written by four hexadecimal digits.
FourHexDigits(value) ==
    DigitValue(value[1]) * 4096 + DigitValue(value[2]) * 256
        + DigitValue(value[3]) * 16 + DigitValue(value[4])
IsScalarValue(val) == val < 55296 \/ (57344 <= val /\ val <= 1114111)

\* C7: a short-unicode escape that ends with fewer than 4 digits pushes the one
\* Error "must contain 4 digits, but found only N" and yields no character;
\* with 4 digits it yields the character of that code point when it is a
\* Unicode scalar value and otherwise pushes one Error and yields no
\* character; it never holds more than 4 digits.
C7_ShortUnicode ==
    /\ (escape_status.status = "Sequence" /\ escape_status.sequence.kind = "ShortUnicode")
           => Len(escape_status.sequence.value) <= 4
    /\ EndedKind("ShortUnicode") =>
           /\ Len(EndedValue) <= 4
           /\ ~Ended.panic
           /\ Len(EndedValue) < 4 =>
                  /\ Ended.ret = None
                  /\ Ended.pushed =
                         <<CompileError("Error", Message(MinLengthText, Len(EndedValue)))>>
           /\ Len(EndedValue) = 4 =>
                  IF IsScalarValue(FourHexDigits(EndedValue))
                  THEN Ended.ret = Some(FourHexDigits(EndedValue)) /\ Ended.pushed = <<>>
                  ELSE /\ Ended.ret = None
                       /\ Len(Ended.pushed) = 1
                       /\ Ended.pushed[1].err_lvl = "Error"

\* The number written by up to three octal digits.
OctalDigits(value) ==
    CASE Len(value) = 1 -> DigitValue(value[1])
      [] Len(value) = 2 -> DigitValue(value[1]) * 8 + DigitValue(value[2])
      [] Len(value) = 3 ->
            DigitValue(value[1]) * 64 + DigitValue(value[2]) * 8 + DigitValue(value[3])

\* C8: an octal escape of octal digits decodes to the value of all its digits
\* when it has fewer than 3 digits or the value of the 3 digits is at most
\* 255, and to the value of its first two digits when the value of the 3 digits
\* is above 255; no diagnostic is pushed in either case.
C8_OctalValue ==
    (EndedKind("Octal") /\ \A i \in 1..Len(EndedValue) : EndedValue[i] \in OctDigits)
        => /\ ~Ended.panic
           /\ Ended.pushed = <<>>
           /\ Len(EndedValue) \in 1..3
           /\ Ended.ret =
                  Some(IF Len(EndedValue) < 3 \/ OctalDigits(EndedValue) <= 255
                       THEN OctalDigits(EndedValue)
                       ELSE OctalDigits(SubSeq(EndedValue, 1, 2)))

\* \400 (256) has been decoded from its first two digits, 40 (32).
C8_Witness ==
    /\ EndedKind("Octal")
    /\ EndedValue = <<"4", "0", "0">>
    /\ decoded = Some(32)
    /\ lex_data.errors = <<>>

(***************************************************************************)
(* Claims about the hexadecimal literal sub-lexer.                          *)
(***************************************************************************)
\* The value the grammar gives the literal: all the digits of the integer and
\* fractional parts read as one hexadecimal integer, scaled by 16^-(number of
\* fractional digits) and by 2^exponent or 2^-exponent.
HexFloatValue(fp) ==
    LET digits == radix_fold(fp.int_part \o fp.decimal_part, 16, 0)
        exp == IF fp.exponent = <<>> THEN 0 ELSE radix_fold(fp.exponent, 10, 0)
        signed == IF fp.exponent_neg = Some(TRUE) THEN 0 - exp ELSE exp
    IN  Dyadic(digits, signed - 4 * Len(fp.decimal_part))

HasDigits(fp) == fp.int_part # <<>> \/ fp.decimal_part # <<>>

\* C9: for a floating target type and a literal the grammar accepts,
\* to_hex_value returns (integer part + sum of digit_i / 16^(i+1)) times
\* 2^exponent (sign absent or '+') or divided by 2^exponent (sign '-'), the
\* exponent being 0 without exponent digits.
C9_HexFloatValue ==
    (hex_phase = "done" /\ nb_type \in FloatTypes /\ HasDigits(float_parse))
        => /\ hex_result.kind = "Value"
           /\ hex_result.value = HexFloatValue(float_parse)

\* C10: for every literal text and every target type to_hex_value ends by
\* returning a value or a diagnostic and never panics.
C10_NeverPanics ==
    /\ hex_result.kind # "Panic"
    /\ hex_phase \in {"done", "failed"} => hex_result.kind \in {"Value", "Error"}

\* The integer part of the literal is at least 2^MANTISSA_SIZE.
IntPartOverflows(fp) ==
    /\ fp.int_part # <<>>
    /\ Len(StripZeros(fp.int_part)) <= 7
    /\ radix_fold(fp.int_part, 16, 0) >= 2^MANTISSA_SIZE

\* C11: when the integer part of a hex float literal is at least
\* 2^MANTISSA_SIZE, to_hex_value returns the value and its caller receives a
\* Warning for it and no Error.
C11_MantissaOverflowWarning ==
    (hex_phase = "done" /\ nb_type \in FloatTypes /\ IntPartOverflows(float_parse))
        => /\ hex_result.kind = "Value"
           /\ \E i \in 1..Len(hex_diagnostics(hex_result)) :
                  hex_diagnostics(hex_result)[i].err_lvl = "Warning"
           /\ \A i \in 1..Len(hex_diagnostics(hex_result)) :
                  hex_diagnostics(hex_result)[i].err_lvl # "Error"

(***************************************************************************)
(* Claims about char literals in the character loop.                        *)
(***************************************************************************)
\* The character is matched by none of the arms before those of the quote
\* status: no comment, no escape, no start of a block comment, and it is
\* neither a backslash nor a quote.
IsContent(ch, st) ==
    /\ st.comments = "False"
    /\ st.escape = EscapeFalse
    /\ ~(ch = "*" /\ last(st) = Some("/"))
    /\ ch \notin {"\\", "'", "\""}

CharTokens(toks) == {i \in 1..Len(toks) : toks[i].type = "Char"}

\* A turn of the loop on a content character while the status is Written.
C12_WrittenTurn ==
    (lex_phase = "loop" /\ pos' = pos + 1 /\ lexer_state.single_quote = "Written"
        /\ IsContent(input[pos + 1], lexer_state))
        => /\ lexer_state'.errors =
                  Append(lexer_state.errors,
                         to_error(Message("A char must contain only one character", 0)))
           /\ tokens' = tokens
           /\ lexer_state'.single_quote = "Written"

\* A turn of the loop that emits a Char token, and one that opens a quote.
C12_CharTurn ==
    /\ CharTokens(tokens') # CharTokens(tokens)
           => /\ lexer_state.single_quote = "Opened"
              /\ lexer_state'.single_quote = "Written"
              /\ tokens' = Append(tokens, Token("Char", <<input[pos + 1]>>))
    /\ (lexer_state'.single_quote = "Opened" /\ lexer_state.single_quote # "Opened")
           => (input[pos + 1] = "'" /\ lexer_state.single_quote = "Closed")

\* C12: a char literal takes one content character: a Char token is emitted
\* only when the quote status goes from opened to written, the status is
\* opened again only by a quote met while it is closed, and every content
\* character met while the status is written pushes the Error 'A char must
\* contain only one character', emits no token and leaves the status written.
C12_OneContentCharacter == [][C12_WrittenTurn /\ C12_CharTurn]_vars
C12_Witness ==
    /\ lex_phase = "done"
    /\ input = <<"'", "a", "+", "'">>
    /\ tokens = <<Token("Char", <<"a">>)>>
    /\ Len(lexer_state.errors) = 1
    /\ lexer_state.single_quote = "Closed"

(***************************************************************************)
(* Claims about push_op and push_node_as_leaf.                              *)
(***************************************************************************)
\* The token handled by the step.
Handled == history'[Len(history')]
SymbolTurn(symbols) == Len(history') = Len(history) + 1 /\ Handled \in symbols

C13_AmbiguousTurn ==
    (SymbolTurn(AmbiguousSymbols) /\ push_op(current, first_operator(Handled)).ok)
        => /\ current' = push_op(current, first_operator(Handled)).node
           /\ outcome' = "OkTrue"

\* C13: for Plus, Minus, Star, Increment and Decrement, when the push of the
\* binary or postfix operator succeeds, the tree after the symbol is the tree
\* that push left (one operator node added, no prefix operator pushed) and no
\* error is reported.
C13_PrefixOnlyAfterFailure == [][C13_AmbiguousTurn]_vars

C14_FailedPushTurn ==
    (SymbolTurn(SingleSymbols) /\ outcome' = "Err") => current' = current

\* C14: when push_op returns an error (seen on the symbols whose arm is one
\* push_op call), the tree is the tree of before the call: a failed
\* left-to-right push does not leave the last leaf detached or replaced by
\* Empty.
C14_FailedPushKeepsTree == [][C14_FailedPushTurn]_vars

C15_AssignTurn ==
    (SymbolTurn({"Assign"}) /\ current.kind = "Leaf")
        => /\ outcome' = "OkTrue"
           /\ current' = Binary("Assign", Some(current), None)

\* C15: pushing the right-to-left binary operator Assign on a tree whose root
\* is a built leaf a succeeds and replaces the leaf by Binary(Assign, left =
\* a, right unfilled).
C15_AssignWrapsContent == [][C15_AssignTurn]_vars

\* The tree with its last leaf (the one take_last_leaf finds) replaced by node.
RECURSIVE LastLeafReplaced(_, _)
LastLeafReplaced(self, node) ==
    CASE self.kind = "Leaf" -> node
      [] self.kind = "Binary" /\ is_some(self.arg_r) ->
            [self EXCEPT !.arg_r = Some(LastLeafReplaced(unwrap(self.arg_r), node))]
      [] self.kind = "Ternary" /\ is_some(self.failure) ->
            [self EXCEPT !.failure = Some(LastLeafReplaced(unwrap(self.failure), node))]
      [] self.kind = "Ternary" /\ is_none(self.failure) /\ is_some(self.success) ->
            [self EXCEPT !.success = Some(LastLeafReplaced(unwrap(self.success), node))]
      [] self.kind = "Ternary" /\ is_none(self.failure) /\ is_none(self.success)
                               /\ is_some(self.condition) ->
            [self EXCEPT !.condition = Some(LastLeafReplaced(unwrap(self.condition), node))]
      [] self.kind = "Unary" /\ is_some(self.arg) ->
            [self EXCEPT !.arg = Some(LastLeafReplaced(unwrap(self.arg), node))]
      [] OTHER -> self

LeftToRightSymbols ==
    {s \in SingleSymbols : associativity(single_operator(s)) = "LeftToRight"}

C16_LeftToRightTurn ==
    SymbolTurn(LeftToRightSymbols)
        => IF is_some(take_last_leaf(current).leaf)
           THEN /\ outcome' = "OkTrue"
                /\ current' =
                      LastLeafReplaced(current,
                          add_argument(take_operator(single_operator(Handled)),
                                       Leaf(unwrap(take_last_leaf(current).leaf))))
           ELSE outcome' = "Err" /\ current' = current

\* C16: pushing a left-to-right operator on a tree that has a last leaf L, at
\* any depth, succeeds and gives the tree with L replaced in place by the
\* operator node whose first operand is L; without a last leaf it is an error.
C16_LeftToRightReplacesLastLeaf == [][C16_LeftToRightTurn]_vars

(***************************************************************************)
(* push_node_as_leaf on every node of a bounded shape: the root and its     *)
(* slots are drawn from Slots, then leaves are pushed.                      *)
(***************************************************************************)
Slots == {None, Some(Empty), Some(Leaf("a")), Some(Binary("Add", None, None))}
TreeShapes ==
    {Empty, Leaf("a")}
        \cup {Unary("LogicalNot", s) : s \in Slots}
        \cup {Binary("Add", l, r) : l \in Slots, r \in Slots}
        \cup {Ternary(c, s, f) : c \in Slots, s \in Slots, f \in Slots}

InitTrees ==
    /\ current \in TreeShapes
    /\ p_state = [parenthesis |-> 0, brackets |-> 0, braces |-> 0, ternary |-> 0]
    /\ history = <<>>
    /\ outcome = "None"
    /\ opened = [k \in NestingKinds |-> 0]
    /\ closed = [k \in NestingKinds |-> 0]
    /\ LexDataInit /\ EscapeInit /\ HexIdle /\ LexerIdle

NextTrees == \E lit \in Leaves : PushLeaf(lit)

SpecTrees == InitTrees /\ [][NextTrees]_vars

\* The operand slots of a node in the order the claim gives them.
SlotOrder(self) ==
    CASE self.kind = "Binary" -> <<"arg_l", "arg_r">>
      [] self.kind = "Ternary" -> <<"condition", "success", "failure">>
      [] self.kind = "Unary" -> <<"arg">>
      [] OTHER -> <<>>
UnfilledSlots(self) == {i \in 1..Len(SlotOrder(self)) : self[SlotOrder(self)[i]] = None}
FirstUnfilled(self) ==
    SlotOrder(self)[CHOOSE i \in UnfilledSlots(self) : \A j \in UnfilledSlots(self) : i <= j]

LeafTurn == Len(history') = Len(history) + 1 /\ Handled \in Leaves

C17_LeafTurn ==
    LeafTurn
        => IF current.kind = "Empty"
           THEN outcome' = "Ok" /\ current' = Leaf(Handled)
           ELSE IF UnfilledSlots(current) = {}
           THEN outcome' = "Err" /\ current' = current
           ELSE /\ outcome' = "Ok"
                /\ current' = [current EXCEPT ![FirstUnfilled(current)] = Some(Leaf(Handled))]

\* C17: push_node_as_leaf makes the node the root of an Empty tree; otherwise
\* it fills the first unfilled slot of the root in the order left, right for
\* a Binary, condition, success, failure for a Ternary and the sole argument
\* for a Unary; on a root Leaf or a root without an unfilled slot it returns
\* an error and leaves the tree unchanged.
C17_FillOrder == [][C17_LeafTurn]_vars
C17_Witness ==
    /\ history = <<"a", "b", "c">>
    /\ \E s \in Slots : current = Ternary(s, Some(Leaf("a")), Some(Leaf("b"))) /\ s # None
    /\ outcome = "Err"

\* The operand slots of a node that hold a node.
FilledSlots(self) == {i \in 1..Len(SlotOrder(self)) : self[SlotOrder(self)[i]] # None}

\* The tree has a position waiting for an operand: an Empty placeholder or an
\* unfilled slot, at the root or below it.
RECURSIVE HasOpenPosition(_)
HasOpenPosition(self) ==
    \/ self.kind = "Empty"
    \/ UnfilledSlots(self) # {}
    \/ \E i \in FilledSlots(self) : HasOpenPosition(unwrap(self[SlotOrder(self)[i]]))

C18_NestedLeafTurn ==
    (LeafTurn /\ HasOpenPosition(current)) => (outcome' = "Ok" /\ current' # current)

\* C18: a leaf pushed on a tree whose root slots are all filled, but which
\* holds a partially built node or an Empty placeholder below the root, is
\* attached there and no arity error is reported.
C18_AttachmentDescends == [][C18_NestedLeafTurn]_vars

C19_InterrogationTurn ==
    SymbolTurn({"Interrogation"})
        => /\ outcome' = "OkTrue"
           /\ current' = Ternary(Some(current), Some(Empty), None)
           /\ p_state'.ternary = p_state.ternary + 1

C19_SuccessLeafTurn ==
    (LeafTurn /\ current.kind = "Ternary" /\ current.success = Some(Empty)
        /\ current.failure = None)
        => /\ outcome' = "Ok"
           /\ current' = [current EXCEPT !.success = Some(Leaf(Handled))]

\* C19: '?' on a tree T gives Ternary(condition T, success Empty, failure
\* absent) and raises the ternary depth by one; the leaf that follows fills
\* the success slot and the failure slot stays absent.
C19_TernaryOpens == [][C19_InterrogationTurn /\ C19_SuccessLeafTurn]_vars

\* The conditions the claim gives for ':' to be accepted.
ColonAccepted(cur, ps) ==
    /\ ps.ternary > 0
    /\ cur.kind = "Ternary"
    /\ is_some(cur.condition)
    /\ is_some(cur.success)
    /\ unwrap(cur.success) # Empty

C20_ColonTurn ==
    SymbolTurn({"Colon"})
        => IF ColonAccepted(current, p_state)
           THEN /\ outcome' = "OkTrue"
                /\ current' = [current EXCEPT !.failure = Some(Empty)]
                /\ p_state' = [p_state EXCEPT !.ternary = @ - 1]
           ELSE /\ outcome' = "Err"
                /\ current' = current
                /\ p_state' = p_state

\* C20: ':' is accepted only when the ternary depth is above 0 and the current
\* node is a Ternary with its condition present and a non-empty success; it
\* then opens the failure slot and lowers the depth by one.  Any other ':'
\* (right after '?', or outside a ternary) is an error that leaves the tree
\* and the depth unchanged, and the depth is never below 0.
C20_ColonCloses == [](p_state.ternary \in Nat) /\ [][C20_ColonTurn]_vars

C21_CommaTurn ==
    SymbolTurn({"Comma"})
        => /\ outcome' = "Err"
           /\ current' = current
           /\ p_state' = p_state

\* C21: handling a Comma returns an error to the caller (it does not panic)
\* and leaves the tree and the counters unchanged.
C21_CommaIsAnError == [][C21_CommaTurn]_vars

(***************************************************************************)
(* Claims about the escape sub-lexer.                                       *)
(***************************************************************************)
\* A sequence of the kind was ended by a character (not by the end of input).
EndedByChar(kind) ==
    /\ last_end # None
    /\ esc_phase # "done"
    /\ unwrap(last_end).sequence.kind = kind

IsErrorLevel(err) == err.err_lvl = "Error"

\* C22: a \x escape ended by a non-hex character after one hex digit decodes
\* to that digit's value without a diagnostic; ended after no digit it pushes
\* one Error and yields no character; it never holds more than 2 digits.
C22_HexadecimalEscape ==
    /\ EndedByChar("Hexadecimal")
           => /\ Len(unwrap(last_end).sequence.value) = 1
                     => /\ unwrap(last_end).ret =
                               Some(DigitValue(unwrap(last_end).sequence.value[1]))
                        /\ unwrap(last_end).pushed = <<>>
              /\ Len(unwrap(last_end).sequence.value) = 0
                     => /\ unwrap(last_end).ret = None
                        /\ Len(unwrap(last_end).pushed) = 1
                        /\ IsErrorLevel(unwrap(last_end).pushed[1])
    /\ (escape_status.status = "Sequence" /\ escape_status.sequence.kind = "Hexadecimal")
           => Len(escape_status.sequence.value) <= 2

\* C23: the digits an octal escape has taken are the digits of the character
\* it decodes: when 3 digits would exceed 255 the character is decoded from
\* the first two and the third digit is not taken into the escape (it stays
\* for the caller to handle as content).
C23_ThirdDigitNotConsumed ==
    (last_end # None /\ unwrap(last_end).sequence.kind = "Octal"
        /\ is_some(unwrap(last_end).ret))
        => unwrap(last_end).ret = Some(radix_fold(unwrap(last_end).sequence.value, 8, 0))

\* What the claim expects of the call that returned r for the character ch
\* met in the status Single, the diagnostics being ld before the call.
C24_Expected(ch, ld, r) ==
    IF ch \in SimpleEscapes \cup {"0"}
    THEN /\ r.ret = Some(IF ch = "0" THEN 0 ELSE SimpleEscapeValue(ch))
         /\ r.escape_status = EscapeFalse
         /\ r.lex_data = ld
    ELSE IF ch \in {"u", "U", "x"} \cup OctDigits
    THEN TRUE
    ELSE /\ r.ret = None
         /\ r.escape_status = EscapeFalse
         /\ Pushed(ld, r.lex_data) = <<to_error(Message("can not be escaped", 0))>>

\* C24: right after a bare backslash, each of 0 a b t n v f r e " ' ? \ is
\* decoded in that step to its character (0 to NUL) with the escape inactive
\* afterwards and no diagnostic; a character that is neither one of these nor
\* u, U, x or an octal digit pushes one 'can not be escaped' Error, yields no
\* character and leaves the escape inactive.
C24_SimpleEscapes ==
    escape_status = EscapeSingle
        => \A ch \in EscapeChars :
               C24_Expected(ch, lex_data, handle_escaped(ch, lex_data, escape_status))

\* C25: a call of end_escape_sequence yields no character if and only if it
\* pushed exactly one Error diagnostic, and yields a character if and only if
\* it pushed none; the failed flag is set whenever it yields no character.
C25_ErrorIffDiagnostic ==
    last_end # None
        => /\ is_none(unwrap(last_end).ret)
                  <=> /\ Len(unwrap(last_end).pushed) = 1
                      /\ IsErrorLevel(unwrap(last_end).pushed[1])
           /\ is_some(unwrap(last_end).ret) <=> unwrap(last_end).pushed = <<>>
           /\ is_none(unwrap(last_end).ret) => failed(lex_data)

\* C26: when handle_escape has ended a numeric sequence, with a character or
\* with an error, the escape status is inactive afterwards, and the digits of
\* an active sequence never exceed the maximum of its encoding.
C26_StatusClearedAtCompletion ==
    /\ (last_end # None /\ esc_phase = "running") => escape_status = EscapeFalse
    /\ escape_status.status = "Sequence"
           => Len(escape_status.sequence.value) <= max_len(escape_status.sequence)

(***************************************************************************)
(* Claims about the grammar of hex literals.                                *)
(***************************************************************************)
Signs == {"+", "-"}
ExponentMarks == {"p", "P"}
\* The position of the first 'p' or 'P', or one past the end.
FirstMark(lit) ==
    IF \E i \in 1..Len(lit) : lit[i] \in ExponentMarks
    THEN CHOOSE i \in 1..Len(lit) :
             /\ lit[i] \in ExponentMarks
             /\ \A j \in 1..(i - 1) : lit[j] \notin ExponentMarks
    ELSE Len(lit) + 1

SignOutsideExponent(lit) == \E i \in 1..Len(lit) : lit[i] \in Signs /\ i < FirstMark(lit)

\* The malformed shapes, by the position i of the offending character.
MalformedAt(lit, i) ==
    IF i < FirstMark(lit)
    THEN \/ lit[i] \in Signs
         \/ lit[i] = "." /\ \E j \in 1..(i - 1) : lit[j] = "."
         \/ lit[i] # "." /\ lit[i] \notin Signs /\ ~is_ascii_hexdigit(lit[i])
    ELSE IF i > FirstMark(lit)
    THEN \/ lit[i] = "."
         \/ lit[i] \in ExponentMarks
         \/ lit[i] \in Signs /\ \E j \in (FirstMark(lit) + 1)..(i - 1) : lit[j] \in Signs
         \/ lit[i] \notin Signs /\ ~is_ascii_digit(lit[i])
    ELSE FALSE
Malformed(lit) == \E i \in 1..Len(lit) : MalformedAt(lit, i)

\* C27: a literal with a second '.', a '.' or a second 'p' in the exponent, a
\* sign outside the exponent, a second sign, a non-hex-digit in the integer or
\* fractional part, a non-decimal-digit in the exponent or any other
\* unrecognized character makes to_hex_value return an error and no value,
\* for every target type.
C27_MalformedIsAnError ==
    (hex_phase \in {"done", "failed"} /\ Malformed(literal)) => hex_result.kind = "Error"

\* C28: a literal that get_hex_float_state accepts holds a sign only as the
\* first character after 'p'/'P' (hence at most one): a '+' or '-' after one
\* or more exponent digits is rejected.
C28_SignRightAfterMark ==
    hex_phase \in {"convert", "done"}
        => \A i \in 1..Len(literal) :
               literal[i] \in Signs => i = FirstMark(literal) + 1

(***************************************************************************)
(* Claims about block comments in the character loop.                       *)
(***************************************************************************)
\* A turn of the loop on a character met inside a block comment.
CommentTurn == lex_phase = "loop" /\ pos' = pos + 1 /\ lexer_state.comments # "False"

\* The character before the current one is a '*' of the comment's content:
\* the status says so, or it follows another '*' (the opening '*' follows '/').
ContentStar ==
    \/ lexer_state.comments = "Star"
    \/ pos >= 2 /\ input[pos] = "*" /\ input[pos - 1] = "*"

C29_CommentTurn ==
    CommentTurn
        => /\ tokens' = tokens
           /\ lexer_state'.errors = lexer_state.errors
           /\ lexer_state'.literal = lexer_state.literal
           /\ lexer_state'.comments = "False" => (input[pos + 1] = "/" /\ input[pos] = "*")
           /\ (input[pos + 1] = "/" /\ ContentStar) => lexer_state'.comments = "False"

\* C29: inside a block comment every character is consumed silently (no
\* token, no diagnostic, the literal buffer unchanged), the comment closes
\* only at a '/' that follows a '*', and it does close at the first such '/'
\* also when the '/' follows a run of two or more '*'.
C29_CommentClosesAtFirstEnd == [][C29_CommentTurn]_vars

====
